---- MODULE Spec2Model ----
(***************************************************************************)
(* Model of the ai-playground request backend: the in-memory rate limiter  *)
(* (app/lib/rate-limiter.ts) and the three analysis routes that sit behind *)
(* it (document, image, conversation).                                     *)
(*                                                                         *)
(* Time is Date.now() in milliseconds.  TLC integers are 32 bit, so the    *)
(* clock is modelled inside January 1970 (less than 2^31 ms after the      *)
(* epoch); nothing in the code depends on the absolute date.               *)
(***************************************************************************)
EXTENDS Integers, Sequences, FiniteSets, TLC

VARIABLES
    now,          \* Date.now()
    requestLogs,  \* the module-level Map<string, RequestLog>
    last,         \* the most recent rateLimit call: its arguments and result
    solo,         \* per identifier: the one limiter that acted on its current
                  \* window, "mixed" if several did, "none" without a window
    admitted,     \* per identifier: admissions counted in its current window
    env,          \* process.env: OPENAI_API_KEY and NODE_ENV
    doc,          \* the document route's request in flight and its response
    img,          \* the image route's request in flight and its response
    conv,         \* the conversation route's request in flight and its response
    client        \* the browser: page.tsx and the mounted component

routeVars == <<env, doc, img, conv, client>>

(***************************************************************************)
(* Bounds of the model.                                                    *)
(***************************************************************************)
\* the clock is sampled on a grid of MaxGrid+1 points, one window apart
MaxGrid == 1

(***************************************************************************)
(* Program constants.                                                      *)
(***************************************************************************)
MsPerSecond == 1000
NowStart == 86340000

LimiterNames == {"standard", "heavy", "auth", "image"}

\* rateLimiters: the four preset configurations
rateLimiters ==
    [standard |-> [interval |-> 60000,  maxRequests |-> 30],
     heavy    |-> [interval |-> 60000,  maxRequests |-> 5],
     auth     |-> [interval |-> 900000, maxRequests |-> 10],
     image    |-> [interval |-> 60000,  maxRequests |-> 10]]

(***************************************************************************)
(* Inputs.                                                                 *)
(***************************************************************************)
\* an argument or header that is undefined / null
Absent == "<absent>"

\* values the optional identifier argument and the two headers may take
IdInputs == {Absent, "", "ip1"}

\* x-real-ip as the reverse proxy in front of the routes sets it
ProxyIps == {"ip1"}

\* the explicit identifier a direct caller of a limiter passes
ExplicitIds == {"u1"}

\* keys the store can hold with these inputs
Ids == {"u1", "ip1", "anonymous"}

\* instants at which the clock is read: MaxGrid+1 grid points one minute
\* apart from NowStart on, and the point one auth window after NowStart,
\* each also read 1 ms late
Times ==
    { NowStart + k * 60000 + f : k \in 0..MaxGrid, f \in {0, 1} }
    \cup { NowStart + 900000 + f : f \in {0, 1} }

(***************************************************************************)
(* Helpers.                                                                *)
(***************************************************************************)
\* JavaScript truthiness of a string-or-undefined value
Falsy(v) == v = Absent \/ v = ""

\* identifier || x-forwarded-for || x-real-ip || 'anonymous'
GetId(identifier, xff, xri) ==
    IF ~Falsy(identifier) THEN identifier
    ELSE IF ~Falsy(xff) THEN xff
    ELSE IF ~Falsy(xri) THEN xri
    ELSE "anonymous"

\* Math.ceil(a / b) for b > 0
Ceil(a, b) == -((-a) \div b)

\* Map.prototype.set
MapSet(m, k, v) == [x \in DOMAIN m \cup {k} |-> IF x = k THEN v ELSE m[x]]

\* Map.prototype.delete of a set of keys
MapDelete(m, ks) == [x \in DOMAIN m \ ks |-> m[x]]

\* mutation of Expired: a window is over at its resetTime already
ExpiredInclusive(log, t) == log.resetTime <= t

\* log.resetTime < now
Expired(log, t) == log.resetTime < t

\* !log || log.resetTime < now
NeedsNewWindow(logs, id, t) == id \notin DOMAIN logs \/ Expired(logs[id], t)

\* what requestLogs.get(id) yields, as the first if statement sees it
Found(logs, id, t) ==
    IF id \notin DOMAIN logs THEN "nothing"
    ELSE IF Expired(logs[id], t) THEN "expired"
    ELSE "open"

\* mutation of AtCeiling: the comparison is strict
AtCeilingStrict(log, cfg) == log.count > cfg.maxRequests

\* log.count >= config.maxRequests
AtCeiling(log, cfg) == log.count >= cfg.maxRequests

\* mutation of NewLog: the new window starts uncounted
NewLogUncounted(cfg, t) == [count |-> 0, resetTime |-> t + cfg.interval]

\* { count: 1, resetTime: now + config.interval }
NewLog(cfg, t) == [count |-> 1, resetTime |-> t + cfg.interval]

\* mutation of Incremented: the update is lost
IncrementedLost(log) == log

\* log.count++
Incremented(log) == [log EXCEPT !.count = @ + 1]

\* Math.ceil((log.resetTime - now) / 1000)
RetryAfter(log, t) == Ceil(log.resetTime - t, MsPerSecond)

\* mutation of RemainingAfter: remaining is one too many
RemainingStale(cfg, log) == cfg.maxRequests - log.count + 1

\* config.maxRequests - log.count, after the increment
RemainingAfter(cfg, log) == cfg.maxRequests - log.count

\* mutation of AfterRejection: the rejected request is counted
AfterRejectionCounted(logs, id) == MapSet(logs, id, Incremented(logs[id]))

\* lines 46-55: the rejecting branch writes nothing to the store
AfterRejection(logs, id) == logs

(***************************************************************************)
(* rateLimit(config)(request, identifier): the store after the call and    *)
(* the object it returns.                                                  *)
(***************************************************************************)
rateLimit(cfg, id, t, logs) ==
    IF NeedsNewWindow(logs, id, t)
    THEN [logs   |-> MapSet(logs, id, NewLog(cfg, t)),
          result |-> [allowed |-> TRUE,
                      remaining |-> cfg.maxRequests - 1,
                      resetTime |-> t + cfg.interval]]
    ELSE IF AtCeiling(logs[id], cfg)
    THEN [logs   |-> AfterRejection(logs, id),
          result |-> [allowed |-> FALSE,
                      remaining |-> 0,
                      resetTime |-> logs[id].resetTime,
                      retryAfter |-> RetryAfter(logs[id], t)]]
    ELSE [logs   |-> MapSet(logs, id, Incremented(logs[id])),
          result |-> [allowed |-> TRUE,
                      remaining |-> RemainingAfter(cfg, Incremented(logs[id])),
                      resetTime |-> logs[id].resetTime]]

\* bookkeeping of one call: who acted on the window, how many were admitted
SoloAfter(name, id, t, logs) ==
    IF NeedsNewWindow(logs, id, t)
    THEN [solo EXCEPT ![id] = name]
    ELSE [solo EXCEPT ![id] = IF @ = name THEN name ELSE "mixed"]

AdmittedAfter(id, t, logs, result) ==
    IF NeedsNewWindow(logs, id, t)
    THEN [admitted EXCEPT ![id] = 1]
    ELSE IF result.allowed
    THEN [admitted EXCEPT ![id] = @ + 1]
    ELSE admitted

NoResp == [status |-> 0]

NoResult == [allowed |-> FALSE, remaining |-> 0, resetTime |-> 0, retryAfter |-> 0]

DocIdle ==
    [pc         |-> "idle",
     id         |-> Absent,
     admission  |-> "none",     \* outcome of rateLimiters.heavy for this request
     rl         |-> NoResult,   \* rateLimitResult
     url        |-> Absent,     \* the url field of a type=url request
     isPDF      |-> FALSE,
     textLen    |-> 0,          \* textContent.length
     trimLen    |-> 0,          \* textContent.trim().length
     numpages   |-> 0,          \* pdfData.numpages as the parser reported it
     pageCount  |-> 0,
     images     |-> << >>,      \* page numbers whose image was produced
     page       |-> 0,          \* loop index of the page being handled
     pdfError   |-> FALSE,      \* the catch (pdfError) block has been entered
     work       |-> {},         \* kinds of work the request has done so far
     inferences |-> 0,          \* inference calls issued so far
     authFailed |-> FALSE,      \* an inference call failed with status 401
     throttled  |-> FALSE,      \* an inference call failed with status 429
     connected  |-> TRUE,       \* the caller is still waiting
     resp       |-> NoResp]

(***************************************************************************)
(* Initial state: the module has just been loaded.                         *)
(***************************************************************************)
NoCall == [limiter |-> "none"]

LimiterInit ==
    /\ now = NowStart
    /\ requestLogs = << >>
    /\ last = NoCall
    /\ solo = [i \in Ids |-> "none"]
    /\ admitted = [i \in Ids |-> 0]

(***************************************************************************)
(* Actions of the limiter module.                                          *)
(***************************************************************************)
\* the clock moves on between two events; results and responses that were
\* handed over before are no longer held by the program
Tick ==
    /\ \E t \in Times : t > now /\ now' = t
    /\ last' = NoCall
    /\ doc' = IF doc.pc = "done" THEN DocIdle ELSE doc
    /\ UNCHANGED <<requestLogs, solo, admitted, env, img, conv, client>>

\* one call of a preset limiter, run to completion (the body has no await)
Call(name, identifier, xff, xri) ==
    LET id  == GetId(identifier, xff, xri)
        cfg == rateLimiters[name]
        out == rateLimit(cfg, id, now, requestLogs)
    IN /\ requestLogs' = out.logs
       /\ last' = [limiter |-> name, id |-> id,
                   found |-> Found(requestLogs, id, now),
                   result |-> out.result]
       /\ solo' = SoloAfter(name, id, now, requestLogs)
       /\ admitted' = AdmittedAfter(id, now, requestLogs, out.result)
       /\ UNCHANGED now
       /\ UNCHANGED routeVars

CallLimiter ==
    \E name \in LimiterNames, identifier \in ExplicitIds,
       xff \in {Absent, "ip1"}, xri \in {Absent, "ip1"} :
        Call(name, identifier, xff, xri)

\* mutation of SweepKeys: the cleanup drops every entry
SweepKeysAll(logs, t) == DOMAIN logs

\* keys the cleanup callback deletes
SweepKeys(logs, t) == { k \in DOMAIN logs : Expired(logs[k], t) }

\* the setInterval callback; the module may have been loaded at any moment,
\* so the callback may be due at any reading of the clock
Sweep ==
    /\ requestLogs' = MapDelete(requestLogs, SweepKeys(requestLogs, now))
    /\ solo' = [i \in Ids |->
                    IF i \in SweepKeys(requestLogs, now) THEN "none" ELSE solo[i]]
    /\ admitted' = [i \in Ids |->
                    IF i \in SweepKeys(requestLogs, now) THEN 0 ELSE admitted[i]]
    /\ last' = IF SweepKeys(requestLogs, now) = {} THEN NoCall
               ELSE [limiter |-> "sweep", removed |-> SweepKeys(requestLogs, now)]
    /\ UNCHANGED now
    /\ UNCHANGED routeVars

vars == <<now, requestLogs, last, solo, admitted, env, doc, img, conv, client>>

(***************************************************************************)
(* Conversions used when a response is built.                              *)
(***************************************************************************)
DigitChar == <<"0", "1", "2", "3", "4", "5", "6", "7", "8", "9">>

\* String(n) for an integer n >= 0
RECURSIVE NumberToString(_)
NumberToString(n) ==
    IF n < 10 THEN DigitChar[n + 1]
    ELSE NumberToString(n \div 10) \o DigitChar[(n % 10) + 1]

\* n in decimal, left-padded with zeros to w digits
RECURSIVE Pad(_, _)
Pad(n, w) ==
    IF w <= 1 THEN NumberToString(n)
    ELSE Pad(n \div 10, w - 1) \o DigitChar[(n % 10) + 1]

\* the proleptic Gregorian date of day number d (days since 1970-01-01)
CivilFromDays(d) ==
    LET z   == d + 719468
        era == z \div 146097
        doe == z - era * 146097
        yoe == (doe - doe \div 1460 + doe \div 36524 - doe \div 146096) \div 365
        doy == doe - (365 * yoe + yoe \div 4 - yoe \div 100)
        mp  == (5 * doy + 2) \div 153
        m   == IF mp < 10 THEN mp + 3 ELSE mp - 9
    IN [year  |-> IF m <= 2 THEN yoe + era * 400 + 1 ELSE yoe + era * 400,
        month |-> m,
        day   |-> doy - (153 * mp + 2) \div 5 + 1]

\* new Date(ms).toISOString()
ToISOString(ms) ==
    LET date == CivilFromDays(ms \div 86400000)
        rest == ms % 86400000
    IN Pad(date.year, 4) \o "-" \o Pad(date.month, 2) \o "-" \o Pad(date.day, 2)
       \o "T" \o Pad(rest \div 3600000, 2)
       \o ":" \o Pad((rest % 3600000) \div 60000, 2)
       \o ":" \o Pad((rest % 60000) \div 1000, 2)
       \o "." \o Pad(rest % 1000, 3) \o "Z"

(***************************************************************************)
(* Responses.                                                              *)
(***************************************************************************)

\* the value of header name in a response, Absent if it is not set
Header(resp, name) ==
    LET hs == { h \in resp.headers : h[1] = name }
    IN IF hs = {} THEN Absent ELSE (CHOOSE h \in hs : TRUE)[2]

\* mutation of RateLimitHeaders: Retry-After carries remaining
RateLimitHeadersSwapped(result) ==
    { <<"Retry-After", NumberToString(result.remaining)>>,
      <<"X-RateLimit-Limit", "5">>,
      <<"X-RateLimit-Remaining", NumberToString(result.remaining)>>,
      <<"X-RateLimit-Reset", ToISOString(result.resetTime)>> }

\* the headers of the document route's 429 response
RateLimitHeaders(result) ==
    { <<"Retry-After", NumberToString(result.retryAfter)>>,
      <<"X-RateLimit-Limit", "5">>,
      <<"X-RateLimit-Remaining", NumberToString(result.remaining)>>,
      <<"X-RateLimit-Reset", ToISOString(result.resetTime)>> }

\* the document route's answer to a rejected admission
TooManyRequests(result) ==
    [status  |-> 429,
     body    |-> [error |-> "Too many requests. Please try again later.",
                  retryAfter |-> result.retryAfter],
     headers |-> RateLimitHeaders(result)]

\* an omitted details argument
NoDetails == [omitted |-> TRUE]

\* errorResponse(message, status, details)
errorResponse(message, status, details, t) ==
    [status  |-> status,
     body    |-> IF details = NoDetails
                 THEN [error |-> message, timestamp |-> ToISOString(t)]
                 ELSE [error |-> message, timestamp |-> ToISOString(t),
                       details |-> details],
     headers |-> {}]

\* NextResponse.json({ summary, metadata })
SummaryResponse(summary, remaining, t) ==
    [status  |-> 200,
     body    |-> [summary |-> summary,
                  metadata |-> [processedAt |-> ToISOString(t),
                                remainingRequests |-> remaining]],
     headers |-> {}]

(***************************************************************************)
(* The document route: POST /api/analyze/document.  One request is in      *)
(* flight at a time; every action is the code between two awaits.          *)
(***************************************************************************)
\* the request ends with response r; the handler's local variables are gone
Respond(d, r) ==
    [DocIdle EXCEPT !.pc = "done", !.resp = r,
                    !.id = d.id, !.admission = d.admission, !.rl = d.rl,
                    !.url = d.url, !.isPDF = d.isPDF, !.pdfError = d.pdfError,
                    !.work = d.work, !.inferences = d.inferences,
                    !.authFailed = d.authFailed, !.throttled = d.throttled,
                    !.connected = d.connected]

\* errorResponse with the default status 400
BadRequest(d, message, t) == Respond(d, errorResponse(message, 400, NoDetails, t))

\* the outer catch: 'An unexpected error occurred', with the stack in development
Unexpected(d, t) ==
    Respond(d, errorResponse("An unexpected error occurred. Please try again.",
                             500,
                             IF env.nodeEnv = "development"
                             THEN [stack |-> TRUE] ELSE NoDetails,
                             t))

\* one more kind of work is done
Did(d, kind) == [d EXCEPT !.work = @ \cup {kind}]

\* mutation of AfterAdmission: the result of the check is ignored
AfterAdmissionIgnored(d, id, result) ==
    [d EXCEPT !.pc = "formData", !.id = id, !.rl = result,
              !.admission = IF result.allowed THEN "allowed" ELSE "rejected"]

\* lines 207-227: the admission check and what follows it
AfterAdmission(d, id, result) ==
    IF ~result.allowed
    THEN Respond([d EXCEPT !.id = id, !.admission = "rejected", !.rl = result],
                 TooManyRequests(result))
    ELSE [d EXCEPT !.pc = "formData", !.id = id, !.admission = "allowed",
                   !.rl = result]

\* a request arrives: rateLimiters.heavy(request) and the 429 answer
DocPost ==
    /\ doc.pc \in {"idle", "done"}
    /\ \E xff \in IdInputs, xri \in ProxyIps :
        LET id  == GetId(Absent, xff, xri)
            out == rateLimit(rateLimiters.heavy, id, now, requestLogs)
        IN /\ requestLogs' = out.logs
           /\ last' = [limiter |-> "heavy", id |-> id,
                       found |-> Found(requestLogs, id, now),
                       result |-> out.result]
           /\ solo' = SoloAfter("heavy", id, now, requestLogs)
           /\ admitted' = AdmittedAfter(id, now, requestLogs, out.result)
           /\ doc' = AfterAdmission(DocIdle, id, out.result)
    /\ UNCHANGED <<now, env, img, conv, client>>

\* mutation of KeyMissing: only an unset key counts as missing
KeyMissingUnsetOnly(key) == key = Absent \/ key = ""

\* the key the three routes refuse to call the gateway with
KeyMissing(key) ==
    key = Absent \/ key = "" \/ key = "your-openai-api-key-here" \/ key = "dummy-key"

\* new URL(url).protocol for the sample inputs, "throws" if it does not parse
UrlProtocol(url) ==
    CASE url = "http://site.test/a"  -> "http:"
      [] url = "https://site.test/a" -> "https:"
      [] url = "ftp://site.test/a"   -> "ftp:"
      [] url = "file:///etc/passwd"  -> "file:"
      [] OTHER                       -> "throws"

TypeInputs == {Absent, "file", "url", "text"}
UrlInputs == {Absent, "", "not a url", "ftp://site.test/a", "file:///etc/passwd",
              "http://site.test/a", "https://site.test/a"}
\* the document field: whether it is there, and file.size in bytes
FileInputs ==
    { [present |-> FALSE, size |-> 0] }
    \cup { [present |-> TRUE, size |-> n] : n \in {2048, 10485760, 10485761} }

MaxFileSize == 10485760

\* mutation of AfterFormData: a url that parses is fetched whatever its scheme
AfterFormDataAnyScheme(d, type, url, file, t) ==
    IF type \notin {"file", "url"}
    THEN BadRequest(d, "Invalid request type. Must be \"file\" or \"url\".", t)
    ELSE IF type = "url"
    THEN LET u == [d EXCEPT !.url = url]
         IN IF Falsy(url) THEN BadRequest(u, "No URL provided", t)
            ELSE IF UrlProtocol(url) = "throws"
            THEN BadRequest(u, "Invalid URL format", t)
            ELSE [u EXCEPT !.pc = "fetchUrl"]
    ELSE IF ~file.present THEN BadRequest(d, "No file provided", t)
         ELSE IF file.size > MaxFileSize
         THEN BadRequest(d, "File too large. Maximum size is 10MB.", t)
         ELSE [d EXCEPT !.pc = "arrayBuffer"]

\* lines 228-273: the form has been read
AfterFormData(d, type, url, file, t) ==
    IF type \notin {"file", "url"}
    THEN BadRequest(d, "Invalid request type. Must be \"file\" or \"url\".", t)
    ELSE IF type = "url"
    THEN LET u == [d EXCEPT !.url = url]
         IN IF Falsy(url) THEN BadRequest(u, "No URL provided", t)
            ELSE IF UrlProtocol(url) = "throws"
            THEN BadRequest(u, "Invalid URL format", t)
            ELSE IF UrlProtocol(url) \notin {"http:", "https:"}
            THEN BadRequest(u,
                   "Invalid URL protocol. Only HTTP and HTTPS are supported.", t)
            ELSE [u EXCEPT !.pc = "fetchUrl"]
    ELSE IF ~file.present THEN BadRequest(d, "No file provided", t)
         ELSE IF file.size > MaxFileSize
         THEN BadRequest(d, "File too large. Maximum size is 10MB.", t)
         ELSE [d EXCEPT !.pc = "arrayBuffer"]

\* await request.formData(): it throws on a body that is not a form
DocFormData ==
    /\ doc.pc = "formData"
    /\ \/ doc' = Unexpected(doc, now)
       \/ \E type \in TypeInputs, url \in UrlInputs, file \in FileInputs :
            doc' = AfterFormData(Did(doc, "form"), type, url, file, now)
    /\ last' = NoCall
    /\ UNCHANGED <<now, requestLogs, solo, admitted, env, img, conv, client>>

\* text as the route sees it: its length and its length without the
\* surrounding white space (which trails the text in these samples)
TextInputs ==
    { [len |-> 0, trim |-> 0], [len |-> 20, trim |-> 0], [len |-> 9, trim |-> 9],
      [len |-> 12, trim |-> 10], [len |-> 5000, trim |-> 5000] }

\* file.name.toLowerCase() ends with one of these; "bin" is none of the listed
ExtInputs == {"pdf", "docx", "txt", "bin"}
MimeInputs == {"text/plain", "application/octet-stream"}

Min(a, b) == IF a <= b THEN a ELSE b

MaxTextLen == 4000
MaxPdfTextLen == 8000
MinPdfTextLen == 50
MinContentLen == 10
MaxRenderPages == 5

\* text.slice(0, n)
Slice(text, n) == [len |-> Min(text.len, n), trim |-> Min(text.trim, n)]

\* textContent = text
WithText(d, text) == [d EXCEPT !.textLen = text.len, !.trimLen = text.trim]

\* lines 293-398 up to the first await: the key check, then either the PDF
\* branch (convertPDFToImages starts) or the text branch (content check)
StartProcessing(d, t) ==
    IF KeyMissing(env.apiKey)
    THEN Respond(d, errorResponse(
           "OpenAI API key not configured. Please add your API key to the environment variables.",
           500, NoDetails, t))
    ELSE IF d.isPDF THEN [d EXCEPT !.pc = "render"]
    ELSE IF d.textLen = 0 \/ d.trimLen < MinContentLen
    THEN BadRequest(d, "No meaningful content found to summarize", t)
    ELSE [d EXCEPT !.pc = "summarize"]

\* lines 275-290: the file's bytes are there, branch on the extension
AfterArrayBuffer(d, ext, mime, text, t) ==
    IF ext = "pdf" THEN StartProcessing([d EXCEPT !.isPDF = TRUE], t)
    ELSE IF ext = "docx" THEN [d EXCEPT !.pc = "parseDoc"]
    ELSE IF ext = "txt" \/ mime = "text/plain"
    THEN StartProcessing(WithText(d, Slice(text, MaxTextLen)), t)
    ELSE BadRequest(d,
           "Unsupported file type. Supported: PDF, DOC, DOCX, TXT, MD, CSV, LOG", t)

\* await file.arrayBuffer()
DocArrayBuffer ==
    /\ doc.pc = "arrayBuffer"
    /\ \/ doc' = Unexpected(doc, now)
       \/ \E ext \in ExtInputs, mime \in MimeInputs, text \in TextInputs :
            doc' = AfterArrayBuffer(doc, ext, mime, text, now)
    /\ last' = NoCall
    /\ UNCHANGED <<now, requestLogs, solo, admitted, env, img, conv, client>>

FetchOutcomes == {"ok", "ECONNREFUSED", "404", "other"}

\* the message extractTextFromUrl throws with
FetchErrorMessage(outcome) ==
    CASE outcome = "ECONNREFUSED" -> "Cannot connect to the URL"
      [] outcome = "404"          -> "URL not found"
      [] OTHER                    -> "Failed to fetch URL content"

\* lines 255-260: extractTextFromUrl has settled
AfterFetchUrl(d, outcome, text, t) ==
    IF outcome = "ok"
    THEN StartProcessing(
           WithText(d, [len |-> Min(text.trim, MaxTextLen),
                        trim |-> Min(text.trim, MaxTextLen)]), t)
    ELSE BadRequest(d, "Failed to fetch URL: " \o FetchErrorMessage(outcome), t)

\* await extractTextFromUrl(url): axios.get and the cheerio clean-up
DocFetchUrl ==
    /\ doc.pc = "fetchUrl"
    /\ \E outcome \in FetchOutcomes, text \in TextInputs :
         doc' = AfterFetchUrl(Did(doc, "fetch"), outcome, text, now)
    /\ last' = NoCall
    /\ UNCHANGED <<now, requestLogs, solo, admitted, env, img, conv, client>>

\* lines 280, 288-290: extractTextFromDoc has settled
AfterParseDoc(d, ok, text, t) ==
    IF ok THEN StartProcessing(WithText(d, Slice(text, MaxTextLen)), t)
    ELSE BadRequest(d, "Failed to parse file: Failed to parse Word document", t)

\* await extractTextFromDoc(buffer)
DocParseDoc ==
    /\ doc.pc = "parseDoc"
    /\ \E ok \in BOOLEAN, text \in TextInputs :
         doc' = AfterParseDoc(Did(doc, "docParse"), ok, text, now)
    /\ last' = NoCall
    /\ UNCHANGED <<now, requestLogs, solo, admitted, env, img, conv, client>>

(***************************************************************************)
(* Inference calls of the document route.                                  *)
(***************************************************************************)
\* how openai.chat.completions.create settles: with content, without
\* content, or rejected with an HTTP status or another error
InferOutcomes == {"ok", "empty", "401", "429", "503", "error"}

InferFailed(outcome) == outcome \notin {"ok", "empty"}

\* one inference call has been issued and has settled with outcome
Inferred(d, outcome) ==
    [d EXCEPT !.work = @ \cup {"inference"},
              !.inferences = @ + 1,
              !.authFailed = @ \/ outcome = "401",
              !.throttled = @ \/ outcome = "429"]

\* choices[0]?.message?.content || fallback
ContentOr(outcome, fallback) == IF outcome = "ok" THEN "<gateway text>" ELSE fallback

\* lines 408-431: the catch (apiError) block
ApiErrorResponse(outcome, t) ==
    IF outcome = "401"
    THEN errorResponse("Invalid OpenAI API key. Please check your configuration.",
                       401, NoDetails, t)
    ELSE IF outcome = "429"
    THEN errorResponse(
           "OpenAI API rate limit exceeded. Please wait a moment and try again.",
           429, [retryAfter |-> 60], t)
    ELSE IF outcome = "503"
    THEN errorResponse(
           "OpenAI service is temporarily unavailable. Please try again later.",
           503, NoDetails, t)
    ELSE errorResponse("API Error: Unknown error occurred", 500, NoDetails, t)

\* lines 400-407: the success response
Succeed(d, summary, t) == Respond(d, SummaryResponse(summary, d.rl.remaining, t))

\* lines 347-350: catch (pdfError), then the last-resort parsePDF starts
EnterLastResort(d) ==
    [d EXCEPT !.pc = "lastResortText", !.pdfError = TRUE,
              !.images = << >>, !.page = 0, !.pageCount = 0, !.numpages = 0]

\* lines 381-398: the summary call of the text branch has settled
AfterSummarize(d, outcome, t) ==
    IF InferFailed(outcome) THEN Respond(d, ApiErrorResponse(outcome, t))
    ELSE Succeed(d, [kind |-> "text",
                     text |-> ContentOr(outcome, "Unable to generate summary")], t)

DocSummarize ==
    /\ doc.pc = "summarize"
    /\ \E outcome \in InferOutcomes :
         doc' = AfterSummarize(Inferred(doc, outcome), outcome, now)
    /\ last' = NoCall
    /\ UNCHANGED <<now, requestLogs, solo, admitted, env, img, conv, client>>

(***************************************************************************)
(* The PDF branch of the document route.                                   *)
(***************************************************************************)
\* pdfData.numpages of the uploaded PDF (0: the parser reports none)
PageInputs == {0, 2, 12}

\* extracted text lengths around the threshold and beyond the cut
PdfTextInputs == {0, 50, 51, 9000}

\* how converter(i) settles: an image file, a result without a path, an error
RenderOutcomes == {"image", "nopath", "throws"}

\* mutation of RenderLimit: every page is rendered
RenderLimitUncapped(pageCount) == pageCount

\* Math.min(pageCount, 5)
RenderLimit(pageCount) == Min(pageCount, MaxRenderPages)

\* lines 91-97: parsePDF inside convertPDFToImages has settled
AfterPageCount(d, ok, numpages) ==
    IF ~ok THEN EnterLastResort(d)
    ELSE [d EXCEPT !.pc = "renderPage",
                   !.numpages = numpages,
                   !.pageCount = IF numpages = 0 THEN 1 ELSE numpages,
                   !.images = << >>,
                   !.page = 1]

\* await convertPDFToImages(pdfBuffer), up to its first await
DocRender ==
    /\ doc.pc = "render"
    /\ \E ok \in BOOLEAN, numpages \in PageInputs :
         doc' = AfterPageCount(Did(doc, "pdfParse"), ok, numpages)
    /\ last' = NoCall
    /\ UNCHANGED <<now, requestLogs, solo, admitted, env, img, conv, client>>

\* lines 313-322: convertPDFToImages has returned
AfterConvert(d) ==
    IF Len(d.images) > 0
    THEN [d EXCEPT !.pc = "analyzePage", !.page = 1]
    ELSE [d EXCEPT !.pc = "pdfText"]

\* lines 99-119: converter(i) has settled for page d.page
AfterRenderPage(d, outcome) ==
    LET pushed == IF outcome = "image"
                  THEN [d EXCEPT !.images = Append(@, d.page)]
                  ELSE d
    IN IF d.page + 1 <= RenderLimit(d.pageCount)
       THEN [pushed EXCEPT !.page = @ + 1]
       ELSE AfterConvert(pushed)

\* await converter(i)
DocRenderPage ==
    /\ doc.pc = "renderPage"
    /\ \E outcome \in RenderOutcomes :
         doc' = AfterRenderPage(Did(doc, "render"), outcome)
    /\ last' = NoCall
    /\ UNCHANGED <<now, requestLogs, solo, admitted, env, img, conv, client>>

\* lines 131-168: the vision call for image d.page has settled
AfterAnalyzePage(d, outcome) ==
    IF InferFailed(outcome) THEN EnterLastResort(d)
    ELSE IF d.page < Len(d.images) THEN [d EXCEPT !.page = @ + 1]
    ELSE [d EXCEPT !.pc = "analyzeFinal"]

DocAnalyzePage ==
    /\ doc.pc = "analyzePage"
    /\ \E outcome \in InferOutcomes :
         doc' = AfterAnalyzePage(Inferred(doc, outcome), outcome)
    /\ last' = NoCall
    /\ UNCHANGED <<now, requestLogs, solo, admitted, env, img, conv, client>>

\* lines 168-201, 317: the overall-summary call has settled
AfterAnalyzeFinal(d, outcome, t) ==
    IF InferFailed(outcome) THEN EnterLastResort(d)
    ELSE Succeed(d, [kind |-> "pages", analyzed |-> Len(d.images),
                     pageCount |-> d.pageCount,
                     text |-> ContentOr(outcome,
                                        "Unable to generate overall summary")], t)

DocAnalyzeFinal ==
    /\ doc.pc = "analyzeFinal"
    /\ \E outcome \in InferOutcomes :
         doc' = AfterAnalyzeFinal(Inferred(doc, outcome), outcome, now)
    /\ last' = NoCall
    /\ UNCHANGED <<now, requestLogs, solo, admitted, env, img, conv, client>>

\* lines 321-345: the fallback parsePDF has settled
AfterPdfText(d, ok, len, t) ==
    IF ~ok THEN EnterLastResort(d)
    ELSE LET e == [d EXCEPT !.textLen = Min(len, MaxPdfTextLen),
                            !.trimLen = Min(len, MaxPdfTextLen)]
         IN IF e.textLen > MinPdfTextLen
            THEN [e EXCEPT !.pc = "pdfTextInfer"]
            ELSE Succeed(e, [kind |-> "unable",
                             text |-> "Unable to process PDF. The document may be image-based or corrupted."],
                         t)

DocPdfText ==
    /\ doc.pc = "pdfText"
    /\ \E ok \in BOOLEAN, len \in PdfTextInputs :
         doc' = AfterPdfText(Did(doc, "pdfParse"), ok, len, now)
    /\ last' = NoCall
    /\ UNCHANGED <<now, requestLogs, solo, admitted, env, img, conv, client>>

\* lines 325-342: the text-only summary call has settled
AfterPdfTextInfer(d, outcome, t) ==
    IF InferFailed(outcome) THEN EnterLastResort(d)
    ELSE Succeed(d, [kind |-> "textOnlyNote",
                     text |-> ContentOr(outcome, "Unable to generate summary")], t)

DocPdfTextInfer ==
    /\ doc.pc = "pdfTextInfer"
    /\ \E outcome \in InferOutcomes :
         doc' = AfterPdfTextInfer(Inferred(doc, outcome), outcome, now)
    /\ last' = NoCall
    /\ UNCHANGED <<now, requestLogs, solo, admitted, env, img, conv, client>>

\* lines 351-373: the last-resort parsePDF has settled
AfterLastResortText(d, ok, len, t) ==
    IF ~ok
    THEN BadRequest(d,
           "Unable to process this PDF. It may contain only images or be corrupted.", t)
    ELSE LET e == [d EXCEPT !.textLen = Min(len, MaxPdfTextLen),
                            !.trimLen = Min(len, MaxPdfTextLen)]
         IN IF e.textLen > MinPdfTextLen
            THEN [e EXCEPT !.pc = "lastResortInfer"]
            ELSE BadRequest(e, "PDF processing failed: <pdfError.message>", t)

DocLastResortText ==
    /\ doc.pc = "lastResortText"
    /\ \E ok \in BOOLEAN, len \in PdfTextInputs :
         doc' = AfterLastResortText(Did(doc, "pdfParse"), ok, len, now)
    /\ last' = NoCall
    /\ UNCHANGED <<now, requestLogs, solo, admitted, env, img, conv, client>>

\* lines 356-373: the last-resort summary call has settled; its failure is
\* caught by catch (textError)
AfterLastResortInfer(d, outcome, t) ==
    IF InferFailed(outcome)
    THEN BadRequest(d,
           "Unable to process this PDF. It may contain only images or be corrupted.", t)
    ELSE Succeed(d, [kind |-> "plain",
                     text |-> ContentOr(outcome, "Unable to generate summary")], t)

DocLastResortInfer ==
    /\ doc.pc = "lastResortInfer"
    /\ \E outcome \in InferOutcomes :
         doc' = AfterLastResortInfer(Inferred(doc, outcome), outcome, now)
    /\ last' = NoCall
    /\ UNCHANGED <<now, requestLogs, solo, admitted, env, img, conv, client>>

\* the caller goes away; nothing in the route observes it
DocDisconnect ==
    /\ doc.pc \notin {"idle", "done"}
    /\ doc.connected
    /\ doc' = [doc EXCEPT !.connected = FALSE]
    /\ last' = NoCall
    /\ UNCHANGED <<now, requestLogs, solo, admitted, env, img, conv, client>>



(***************************************************************************)
(* Transcripts.  A transcript is the sequence of its space-separated       *)
(* tokens; what the code reads off the characters of a token is tabulated  *)
(* for the tokens that occur.                                              *)
(***************************************************************************)
\* the canned transcript of lines 161 and 191
CannedTranscript ==
    <<"Welcome", "to", "our", "discussion", "today.", "I", "wanted", "to",
      "talk", "about", "the", "new", "project", "proposal", "we've",
      "been", "working", "on.", "That", "sounds", "great,", "I'm",
      "excited", "to", "hear", "more", "about", "it.", "Can", "you",
      "tell", "me", "what", "the", "main", "objectives", "are?", "Sure,",
      "the", "primary", "goal", "is", "to", "improve", "our", "customer",
      "experience", "through", "better", "technology", "integration.",
      "That", "makes", "sense.", "How", "long", "do", "you", "think",
      "the", "implementation", "will", "take?", "We're", "estimating",
      "about", "three", "months", "for", "the", "initial", "phase.",
      "Perfect,", "let's", "discuss", "the", "budget", "requirements",
      "next.">>

\* the canned transcript of line 197
SampleTranscript ==
    <<"This", "is", "a", "sample", "conversation.", "Speaker", "one",
      "introduces", "the", "topic.", "Speaker", "two", "responds", "with",
      "interest.", "They", "discuss", "various", "points.", "The",
      "conversation", "continues", "with", "questions", "and", "answers.",
      "Both", "speakers", "contribute", "equally", "to", "the",
      "discussion.">>

\* tokens whose last character is one of . ! ?
TerminalTokens ==
    {"Fine.", "Five.", "Four.", "One.", "Seven.", "Six.", "Three.", "Two.",
     "What?!", "answers.", "are?", "conversation.", "discussion.",
     "integration.", "interest.", "is.", "it.", "next.", "on.", "phase.",
     "points.", "ready?", "sense.", "take?", "today.", "tomorrow.", "topic."}

\* tokens that contain a question mark
QuestionTokens ==
    {"What?!", "are?", "ready?", "take?"}

\* toLowerCase() of the tokens that are not lower case already
LowerTable ==
    "Both" :> "both" @@ "Can" :> "can" @@ "Fine." :> "fine." @@
    "Five." :> "five." @@ "Four." :> "four." @@ "How" :> "how" @@
    "I" :> "i" @@ "I'm" :> "i'm" @@ "Is" :> "is" @@ "One." :> "one." @@
    "Perfect," :> "perfect," @@ "Seven." :> "seven." @@ "Six." :> "six." @@
    "Speaker" :> "speaker" @@ "Sure," :> "sure," @@ "That" :> "that" @@
    "The" :> "the" @@ "They" :> "they" @@ "This" :> "this" @@
    "Three." :> "three." @@ "Two." :> "two." @@ "We're" :> "we're" @@
    "Welcome" :> "welcome" @@ "What?!" :> "what?!" @@ "Yes" :> "yes" @@
    "You" :> "you"

ToLowerCase(w) == IF w \in DOMAIN LowerTable THEN LowerTable[w] ELSE w

(***************************************************************************)
(* performDiarization(transcript).                                         *)
(***************************************************************************)
FirstPersonWords == {"i", "i'm", "i've", "i'll", "my", "me"}
SecondPersonWords == {"you", "you're", "you've", "your"}
AgreementWords == {"yes", "yeah", "sure", "okay", "right", "exactly"}
DisagreementWords == {"no", "nope", "not", "don't", "doesn't"}

\* transcript.split(/(?<=[.!?])\s+/).filter(s => s.trim())
RECURSIVE SplitSentences(_, _, _)
SplitSentences(rest, cur, acc) ==
    IF rest = << >>
    THEN IF cur = << >> THEN acc ELSE Append(acc, cur)
    ELSE IF Head(rest) \in TerminalTokens
    THEN SplitSentences(Tail(rest), << >>, Append(acc, Append(cur, Head(rest))))
    ELSE SplitSentences(Tail(rest), Append(cur, Head(rest)), acc)

\* text.includes('?')
IncludesQuestionMark(sentence) ==
    \E i \in 1..Len(sentence) : sentence[i] \in QuestionTokens

\* trimmed.toLowerCase().split(' ') has a word of the set
HasWord(sentence, set) ==
    \E i \in 1..Len(sentence) : ToLowerCase(sentence[i]) \in set

\* mutation of OtherSpeaker: the flip away from 'Speaker 2' opens a new label
OtherSpeakerNew(speaker) == IF speaker = "Speaker 1" THEN "Speaker 2" ELSE "Speaker 3"

\* currentSpeaker === 'Speaker 1' ? 'Speaker 2' : 'Speaker 1'
OtherSpeaker(speaker) == IF speaker = "Speaker 1" THEN "Speaker 2" ELSE "Speaker 1"

\* line 95: diarized.filter(d => d.speaker === currentSpeaker).length >= 2
UsedTwice(diarized, current) ==
    Cardinality({ i \in 1..Len(diarized) : diarized[i].speaker = current }) >= 2

\* mutation of LastTwoSame: only the last segment is looked at
LastOneSame(diarized, current) ==
    \A i \in 1..Len(diarized) :
        i > Len(diarized) - 1 => diarized[i].speaker = current

\* line 96: diarized.slice(-2).every(d => d.speaker === currentSpeaker)
LastTwoSame(diarized, current) ==
    \A i \in 1..Len(diarized) :
        i > Len(diarized) - 2 => diarized[i].speaker = current

\* mutation of SpeakerAfter: the first-person rule is tried before the
\* agreement rule
SpeakerAfterSwapped(diarized, sentence) ==
    LET prev    == diarized[Len(diarized)]
        current == prev.speaker
        first   == HasWord(sentence, FirstPersonWords)
        second  == HasWord(sentence, SecondPersonWords)
    IN IF IncludesQuestionMark(prev.text) THEN OtherSpeaker(prev.speaker)
       ELSE IF first /\ ~second THEN current
       ELSE IF HasWord(sentence, AgreementWords)
               \/ HasWord(sentence, DisagreementWords)
       THEN OtherSpeaker(prev.speaker)
       ELSE IF second /\ ~first THEN OtherSpeaker(prev.speaker)
       ELSE IF UsedTwice(diarized, current) /\ LastTwoSame(diarized, current)
       THEN OtherSpeaker(current)
       ELSE current

\* lines 75-100: the speaker of a sentence that is not the first;
\* currentSpeaker is the speaker of the segment pushed last
SpeakerAfter(diarized, sentence) ==
    LET prev    == diarized[Len(diarized)]
        current == prev.speaker
        first   == HasWord(sentence, FirstPersonWords)
        second  == HasWord(sentence, SecondPersonWords)
    IN IF IncludesQuestionMark(prev.text) THEN OtherSpeaker(prev.speaker)
       ELSE IF HasWord(sentence, AgreementWords)
               \/ HasWord(sentence, DisagreementWords)
       THEN OtherSpeaker(prev.speaker)
       ELSE IF first /\ ~second THEN current
       ELSE IF second /\ ~first THEN OtherSpeaker(prev.speaker)
       ELSE IF UsedTwice(diarized, current) /\ LastTwoSame(diarized, current)
       THEN OtherSpeaker(current)
       ELSE current

\* lines 58-107: sentences.forEach
RECURSIVE Diarize(_, _)
Diarize(sentences, diarized) ==
    IF sentences = << >> THEN diarized
    ELSE Diarize(Tail(sentences),
                 Append(diarized,
                        [speaker |-> IF diarized = << >> THEN "Speaker 1"
                                     ELSE SpeakerAfter(diarized, Head(sentences)),
                         text    |-> Head(sentences)]))

performDiarization(transcript) ==
    Diarize(SplitSentences(transcript, << >>, << >>), << >>)

(***************************************************************************)
(* The conversation route: POST /api/analyze/conversation.                 *)
(***************************************************************************)
\* a response body { error } with a status
ErrorJson(message, status) ==
    [status |-> status, body |-> [error |-> message], headers |-> {}]

ConvIdle ==
    [pc         |-> "idle",
     admission  |-> "none",     \* no limiter is consulted by this route
     transcript |-> << >>,
     work       |-> {},
     inferences |-> 0,
     authFailed |-> FALSE,
     stt        |-> "none",     \* how the speech-to-text call settled
     sum        |-> "none",     \* how the summary call settled
     resp       |-> NoResp]

\* audioFile.type of the upload; Absent when the form has no audio field
AudioTypeInputs == {Absent, "audio/mpeg", "video/webm", "video/mp4",
                    "video/quicktime", "image/png"}

\* validAudioTypes.some(type => audioFile.type.startsWith(type))
ValidAudioType(type) == type \in {"audio/mpeg", "video/webm", "video/mp4"}

ConvRespond(c, r) ==
    [ConvIdle EXCEPT !.pc = "done", !.resp = r, !.transcript = c.transcript,
                     !.work = c.work, !.inferences = c.inferences,
                     !.authFailed = c.authFailed, !.stt = c.stt, !.sum = c.sum]

\* lines 201-208: diarize and answer
ConvSucceed(c, summary) ==
    ConvRespond(c, [status  |-> 200,
                    body    |-> [transcript  |-> c.transcript,
                                 diarization |-> performDiarization(c.transcript),
                                 summary     |-> summary],
                    headers |-> {}])

\* lines 209-214: the outer catch
ConvFailed(c) ==
    ConvRespond(c, ErrorJson(
        "Failed to process audio. Please ensure the file is a valid audio format.",
        500))

\* lines 115-129: the form has been read
AfterConvForm(c, type) ==
    IF type = Absent
    THEN ConvRespond(c, ErrorJson("No audio file provided", 400))
    ELSE IF ~ValidAudioType(type)
    THEN ConvRespond(c, ErrorJson(
           "Invalid file type. Please upload an audio file (MP3, WAV, M4A, etc.)",
           400))
    ELSE [c EXCEPT !.pc = "arrayBuffer"]

\* a request arrives: await request.formData()
ConvPost ==
    /\ conv.pc \in {"idle", "done"}
    /\ \/ conv' = ConvFailed(ConvIdle)
       \/ \E type \in AudioTypeInputs :
            conv' = AfterConvForm([ConvIdle EXCEPT !.work = {"form"}], type)
    /\ UNCHANGED <<now, requestLogs, last, solo, admitted, env, doc, img, client>>

\* line 192: the summary of the demo answer
DemoSummary ==
    "A business conversation between two people discussing a new project proposal, including objectives, timeline, and budget considerations."

\* lines 134-148, 189-199: the audio bytes are there
AfterConvBuffer(b, fileOk) ==
    LET c == [b EXCEPT !.work = @ \cup {"buffer"}]
    IN
    IF KeyMissing(env.apiKey)
    THEN ConvSucceed([c EXCEPT !.transcript = CannedTranscript], DemoSummary)
    ELSE IF ~fileOk
    THEN ConvSucceed([c EXCEPT !.transcript = SampleTranscript],
           "A conversation between two speakers on a professional topic.")
    ELSE [c EXCEPT !.pc = "whisper"]

\* await audioFile.arrayBuffer(); new Blob / new File may throw afterwards
ConvArrayBuffer ==
    /\ conv.pc = "arrayBuffer"
    /\ \/ conv' = ConvFailed(conv)
       \/ \E fileOk \in BOOLEAN : conv' = AfterConvBuffer(conv, fileOk)
    /\ UNCHANGED <<now, requestLogs, last, solo, admitted, env, doc, img, client>>

\* how openai.audio.transcriptions.create settles
WhisperOutcomes == {"ok", "401", "429", "503", "error"}

\* transcripts the gateway may return
TranscriptInputs ==
    { << >>,
      <<"Is", "this", "ready?", "Yes", "it", "is.", "I", "will", "send", "it",
        "tomorrow.">>,
      <<"What?!", "You", "said", "it.", "Fine.">>,
      <<"One.", "Two.", "Three.", "Four.", "Five.", "Six.", "Seven.">> }

\* one gateway call of the conversation route has settled
ConvInferred(c, outcome) ==
    [c EXCEPT !.work = @ \cup {"inference"},
              !.inferences = @ + 1,
              !.authFailed = @ \/ outcome = "401"]

\* lines 150-188: the transcription has settled
AfterWhisper(c, outcome, transcript) ==
    IF outcome = "401"
    THEN ConvRespond(c, ErrorJson(
           "Invalid OpenAI API key. Please check your configuration.", 500))
    ELSE LET t == IF outcome = "ok" THEN transcript ELSE CannedTranscript
             e == [c EXCEPT !.transcript = t]
         IN IF t = << >> THEN ConvSucceed(e, "") ELSE [e EXCEPT !.pc = "summary"]

ConvWhisper ==
    /\ conv.pc = "whisper"
    /\ \E outcome \in WhisperOutcomes, transcript \in TranscriptInputs :
         conv' = AfterWhisper([ConvInferred(conv, outcome) EXCEPT !.stt = outcome],
                              outcome, transcript)
    /\ UNCHANGED <<now, requestLogs, last, solo, admitted, env, doc, img, client>>

\* line 186: the summary that stands in for a failed summary call
CannedSummary ==
    "A conversation between two speakers discussing project-related topics."

\* lines 183-187: the summary call has settled
AfterConvSummary(c, outcome) ==
    IF InferFailed(outcome)
    THEN ConvSucceed(c,
           CannedSummary)
    ELSE ConvSucceed(c, ContentOr(outcome, ""))

ConvSummary ==
    /\ conv.pc = "summary"
    /\ \E outcome \in InferOutcomes :
         conv' = AfterConvSummary([ConvInferred(conv, outcome) EXCEPT !.sum = outcome],
                                  outcome)
    /\ UNCHANGED <<now, requestLogs, last, solo, admitted, env, doc, img, client>>

(***************************************************************************)
(* The image route: POST /api/analyze/image.                               *)
(***************************************************************************)
ImgIdle ==
    [pc         |-> "idle",
     admission  |-> "none",     \* no limiter is consulted by this route
     work       |-> {},
     inferences |-> 0,
     authFailed |-> FALSE,
     vision     |-> "none",     \* how the vision call settled
     resp       |-> NoResp]

\* imageFile.type of the upload; Absent when the form has no image field
ImageTypeInputs == {Absent, "image/jpeg", "image/png", "image/webp",
                    "image/svg+xml", "application/pdf"}

ValidImageTypes == {"image/jpeg", "image/jpg", "image/png", "image/gif", "image/webp"}

ImageSizeInputs == {4096, 20971520, 20971521}

MaxImageSize == 20971520

ImgRespond(i, r) ==
    [ImgIdle EXCEPT !.pc = "done", !.resp = r, !.work = i.work,
                    !.inferences = i.inferences, !.authFailed = i.authFailed,
                    !.vision = i.vision]

\* NextResponse.json({ description })
Description(i, kind) ==
    ImgRespond(i, [status |-> 200, body |-> [description |-> kind], headers |-> {}])

\* lines 127-132: the outer catch
ImgFailed(i) ==
    ImgRespond(i, ErrorJson("Failed to process image. Please try again.", 500))

\* lines 11-32: the form has been read
AfterImgForm(i, type, size) ==
    IF type = Absent
    THEN ImgRespond(i, ErrorJson("No image file provided", 400))
    ELSE IF type \notin ValidImageTypes
    THEN ImgRespond(i, ErrorJson(
           "Invalid file type. Please upload an image (JPG, PNG, GIF, or WebP)", 400))
    ELSE IF size > MaxImageSize
    THEN ImgRespond(i, ErrorJson(
           "Image too large. Please upload an image smaller than 20MB", 400))
    ELSE [i EXCEPT !.pc = "arrayBuffer"]

\* a request arrives: await request.formData()
ImgPost ==
    /\ img.pc \in {"idle", "done"}
    /\ \/ img' = ImgFailed(ImgIdle)
       \/ \E type \in ImageTypeInputs, size \in ImageSizeInputs :
            img' = AfterImgForm([ImgIdle EXCEPT !.work = {"form"}], type, size)
    /\ UNCHANGED <<now, requestLogs, last, solo, admitted, env, doc, conv, client>>

\* lines 67-83: the description of the demo answer, built from
\* imageFile.type and imageFile.size
DemoDescription == "demo mode: file type and size"

\* lines 35-40, 65-86: the image bytes are there
AfterImgBuffer(b) ==
    LET i == [b EXCEPT !.work = @ \cup {"buffer"}]
    IN IF KeyMissing(env.apiKey) THEN Description(i, DemoDescription)
       ELSE [i EXCEPT !.pc = "vision"]

\* await imageFile.arrayBuffer()
ImgArrayBuffer ==
    /\ img.pc = "arrayBuffer"
    /\ \/ img' = ImgFailed(img)
       \/ img' = AfterImgBuffer(img)
    /\ UNCHANGED <<now, requestLogs, last, solo, admitted, env, doc, conv, client>>

\* how the vision call settles; model_not_found is the error code of a
\* model the key has no access to
VisionOutcomes == {"ok", "empty", "401", "429", "503", "model_not_found", "error"}

\* lines 104-111: the description when the vision model is not available,
\* built from imageFile.name, imageFile.type and imageFile.size
ModelNotFoundTemplate ==
    "Image uploaded successfully: name, type, size; vision model is not available"

\* lines 117-123: the description of the generic fallback, built from the
\* same three values with another wording
GenericTemplate ==
    "Image received: name, type, size; service is temporarily unavailable"

\* mutation of AfterVision: a 401 is answered like any other failure
AfterVisionAuthTemplated(i, outcome) ==
    IF outcome \in {"ok", "empty"}
    THEN Description(i, ContentOr(outcome, "Unable to analyze image"))
    ELSE IF outcome = "429"
    THEN ImgRespond(i, ErrorJson(
           "API rate limit exceeded. Please try again later.", 429))
    ELSE IF outcome = "model_not_found"
    THEN Description(i, ModelNotFoundTemplate)
    ELSE Description(i, GenericTemplate)

\* lines 63-64, 87-126: the vision call has settled
AfterVision(i, outcome) ==
    IF outcome \in {"ok", "empty"}
    THEN Description(i, ContentOr(outcome, "Unable to analyze image"))
    ELSE IF outcome = "401"
    THEN ImgRespond(i, ErrorJson(
           "Invalid OpenAI API key. Please check your configuration.", 500))
    ELSE IF outcome = "429"
    THEN ImgRespond(i, ErrorJson(
           "API rate limit exceeded. Please try again later.", 429))
    ELSE IF outcome = "model_not_found"
    THEN Description(i, ModelNotFoundTemplate)
    ELSE Description(i, GenericTemplate)

ImgVision ==
    /\ img.pc = "vision"
    /\ \E outcome \in VisionOutcomes :
         img' = AfterVision([img EXCEPT !.work = @ \cup {"inference"},
                                        !.inferences = @ + 1,
                                        !.authFailed = @ \/ outcome = "401",
                                        !.vision = outcome],
                            outcome)
    /\ UNCHANGED <<now, requestLogs, last, solo, admitted, env, doc, conv, client>>

(***************************************************************************)
(* The browser side: page.tsx holds selectedSkill and history and mounts   *)
(* exactly one of the three components; a component holds loading, result  *)
(* and (DocumentSummarization only) progress.  A handler suspended at an   *)
(* await and a pending setTimeout callback outlive the component instance  *)
(* that started them; a state update of an unmounted instance is dropped.  *)
(***************************************************************************)
Skills == {"conversation", "image", "document"}

\* the first argument each component passes to onAnalysis
HistoryType(skill) ==
    IF skill = "conversation" THEN "Conversation Analysis"
    ELSE IF skill = "image" THEN "Image Analysis"
    ELSE "Document Summarization"

\* what may be submitted from a component: the document form takes a PDF,
\* another file or a URL, the other two forms a file
SubmitKinds(skill) ==
    IF skill = "document" THEN {"pdf", "file", "url"} ELSE {"file"}

ProgressConverting == "Converting PDF pages to images..."
ProgressProcessing == "Processing document..."
ProgressFetching   == "Fetching and analyzing content..."
ProgressAnalyzing  == "Analyzing page content and visuals..."
ProgressGenerating == "Generating comprehensive summary..."

TimerDelays == {2000, 5000}

TimerMessage(delay) ==
    IF delay = 2000 THEN ProgressAnalyzing ELSE ProgressGenerating

HistoryLimit == 10

\* the state after the page and its first component have mounted.
\* requests: the handlers suspended at an await; timers: the pending
\* setTimeout callbacks; live: started by the instance that is still
\* mounted.  submitted, added, progressOf, okays and finished are history
\* variables: submissions so far, addToHistory calls so far, the submission
\* whose code wrote progress last, the submissions whose response was OK,
\* the submissions whose handler has run its finally block.
ClientIdle ==
    [selectedSkill |-> "conversation", loading |-> FALSE, progress |-> "",
     progressOf |-> 0, result |-> 0, requests |-> {}, timers |-> {},
     submitted |-> 0, okays |-> {}, finished |-> {},
     history |-> <<>>, added |-> 0]

\* Array.prototype.slice(0, k)
SliceFromStart(s, k) == SubSeq(s, 1, Min(Len(s), k))

\* the entry of a call; its position among all calls stands for Date.now()
NewEntry(c, type, input) ==
    [id |-> c.added + 1, type |-> type, input |-> input]

addToHistoryUnsliced(c, type, input) ==
    [c EXCEPT !.history = <<NewEntry(c, type, input)>> \o @,
              !.added = @ + 1]

addToHistory(c, type, input) ==
    [c EXCEPT !.history =
                  SliceFromStart(<<NewEntry(c, type, input)>> \o @, HistoryLimit),
              !.added = @ + 1]

\* the synchronous part of a handler up to its await fetch(...)
Submitted(c, kind) ==
    LET n == c.submitted + 1
        base == [c EXCEPT !.loading = TRUE,
                          !.submitted = n,
                          !.requests = @ \cup
                              {[n |-> n, skill |-> c.selectedSkill,
                                pc |-> "fetch", live |-> TRUE]}]
    IN  IF c.selectedSkill # "document" THEN base
        ELSE [base EXCEPT
                !.result = 0,
                !.progress = IF kind = "pdf" THEN ProgressConverting
                             ELSE IF kind = "url" THEN ProgressFetching
                             ELSE ProgressProcessing,
                !.progressOf = n,
                !.timers = IF kind = "pdf"
                           THEN @ \cup {[n |-> n, delay |-> d, live |-> TRUE] :
                                          d \in TimerDelays}
                           ELSE @]

\* the finally block without its state updates
SettledNoFinally(c, r) ==
    [c EXCEPT !.requests = @ \ {r}, !.finished = @ \cup {r.n}]

\* the finally block: setLoading(false), and setProgress('') in the
\* document component
Settled(c, r) ==
    LET d == [c EXCEPT !.requests = @ \ {r}, !.finished = @ \cup {r.n}]
    IN  IF ~r.live THEN d
        ELSE IF r.skill = "document"
             THEN [d EXCEPT !.loading = FALSE, !.progress = "", !.progressOf = 0]
             ELSE [d EXCEPT !.loading = FALSE]

\* the catch block (console.error, alert) followed by finally
Failed(c, r) == Settled(c, r)

\* setResult, onAnalysis, then finally
Succeeded(c, r) ==
    LET shown == IF r.live THEN [c EXCEPT !.result = r.n] ELSE c
    IN  Settled(addToHistory(shown, HistoryType(r.skill), r.n), r)

\* the handler continues after await fetch(...)
AfterFetch(c, r, outcome) ==
    IF outcome = "threw" THEN Failed(c, r)
    ELSE IF outcome = "notok"
         THEN IF r.skill = "document"
              THEN [c EXCEPT !.requests =
                                 (@ \ {r}) \cup {[r EXCEPT !.pc = "errorJson"]}]
              ELSE Failed(c, r)
         ELSE [c EXCEPT !.requests = (@ \ {r}) \cup {[r EXCEPT !.pc = "json"]},
                        !.okays = @ \cup {r.n}]

\* the handler continues after await response.json()
AfterJson(c, r, parsed) ==
    IF r.pc = "json" /\ parsed THEN Succeeded(c, r) ELSE Failed(c, r)

serverVars == <<now, requestLogs, last, solo, admitted, env, doc, img, conv>>

MaxSubmits == 2

\* a click on another skill: the mounted component is replaced by a fresh one
SelectSkill ==
    \E skill \in Skills \ {client.selectedSkill} :
        /\ client' = [client EXCEPT
                        !.selectedSkill = skill,
                        !.loading = FALSE,
                        !.progress = "",
                        !.progressOf = 0,
                        !.result = 0,
                        !.requests = {[r EXCEPT !.live = FALSE] : r \in @},
                        !.timers = {[t EXCEPT !.live = FALSE] : t \in @}]
        /\ UNCHANGED serverVars

\* a click on the submit button, which is disabled while loading
Submit ==
    /\ ~client.loading
    /\ client.submitted < MaxSubmits
    /\ \E kind \in SubmitKinds(client.selectedSkill) :
           client' = Submitted(client, kind)
    /\ UNCHANGED serverVars

FetchSettlesFor(n) ==
    \E r \in client.requests, outcome \in {"ok", "notok", "threw"} :
        /\ r.n = n
        /\ r.pc = "fetch"
        /\ client' = AfterFetch(client, r, outcome)
        /\ UNCHANGED serverVars

JsonSettlesFor(n) ==
    \E r \in client.requests, parsed \in BOOLEAN :
        /\ r.n = n
        /\ r.pc \in {"json", "errorJson"}
        /\ client' = AfterJson(client, r, parsed)
        /\ UNCHANGED serverVars

FetchSettles == \E n \in 1..MaxSubmits : FetchSettlesFor(n)

JsonSettles == \E n \in 1..MaxSubmits : JsonSettlesFor(n)

\* a setTimeout callback runs; one that was scheduled no later and with no
\* longer delay has run before it
TimerFires ==
    \E t \in client.timers :
        /\ \A u \in client.timers : (u.n <= t.n /\ u.delay <= t.delay) => u = t
        /\ client' = IF t.live
                     THEN [client EXCEPT !.timers = @ \ {t},
                                         !.progress = TimerMessage(t.delay),
                                         !.progressOf = t.n]
                     ELSE [client EXCEPT !.timers = @ \ {t}]
        /\ UNCHANGED serverVars

(***************************************************************************)
(* SpecMedia: the image and the conversation route, each with one request  *)
(* in flight, under every setting of the gateway key.                      *)
(***************************************************************************)
ApiKeyInputs == {Absent, "your-openai-api-key-here", "dummy-key", "sk-live"}

InitMedia ==
    /\ LimiterInit
    /\ client = ClientIdle
    /\ env \in [apiKey : ApiKeyInputs, nodeEnv : {"production"}]
    /\ doc = DocIdle
    /\ img = ImgIdle
    /\ conv = ConvIdle

NextMedia ==
    \/ ImgPost \/ ImgArrayBuffer \/ ImgVision
    \/ ConvPost \/ ConvArrayBuffer \/ ConvWhisper \/ ConvSummary

SpecMedia == InitMedia /\ [][NextMedia]_vars

(***************************************************************************)
(* Spec: the limiter module driven through its exported presets.           *)
(***************************************************************************)
Init ==
    /\ LimiterInit
    /\ client = ClientIdle
    /\ env = [apiKey |-> "sk-live", nodeEnv |-> "production"]
    /\ doc = DocIdle
    /\ img = ImgIdle
    /\ conv = ConvIdle

Next == Tick \/ CallLimiter \/ Sweep

Spec == Init /\ [][Next]_vars

(***************************************************************************)
(* SpecDoc: the document route in front of the heavy limiter.              *)
(***************************************************************************)
InitDoc ==
    /\ LimiterInit
    /\ client = ClientIdle
    /\ env = [apiKey |-> "sk-live", nodeEnv |-> "production"]
    /\ doc = DocIdle
    /\ img = ImgIdle
    /\ conv = ConvIdle

NextDoc ==
    \/ Tick \/ Sweep
    \/ DocPost \/ DocFormData \/ DocArrayBuffer \/ DocFetchUrl \/ DocParseDoc
    \/ DocSummarize \/ DocRender \/ DocRenderPage \/ DocAnalyzePage
    \/ DocAnalyzeFinal \/ DocPdfText \/ DocPdfTextInfer \/ DocLastResortText
    \/ DocLastResortInfer \/ DocDisconnect

SpecDoc == InitDoc /\ [][NextDoc]_vars

(***************************************************************************)
(* SpecKey: the three routes under every setting of the gateway key.  The  *)
(* handlers share no variable but requestLogs, which only the document     *)
(* route touches, so a request of one route runs the same whether or not   *)
(* another route has one in flight: SpecKey takes one request at a time,   *)
(* and a response that was handed over is no longer held by the program.   *)
(***************************************************************************)
InitKey ==
    /\ LimiterInit
    /\ client = ClientIdle
    /\ env \in [apiKey : ApiKeyInputs, nodeEnv : {"production"}]
    /\ doc = DocIdle
    /\ img = ImgIdle
    /\ conv = ConvIdle

\* the response of a finished request has been handed over
Forget ==
    /\ \/ doc.pc = "done" /\ doc' = DocIdle /\ UNCHANGED <<img, conv>>
       \/ img.pc = "done" /\ img' = ImgIdle /\ UNCHANGED <<doc, conv>>
       \/ conv.pc = "done" /\ conv' = ConvIdle /\ UNCHANGED <<doc, img>>
    /\ last' = NoCall
    /\ UNCHANGED <<now, requestLogs, solo, admitted, env, client>>

KeyDoc ==
    /\ img.pc = "idle" /\ conv.pc = "idle"
    /\ \/ DocPost \/ DocFormData \/ DocArrayBuffer \/ DocFetchUrl \/ DocParseDoc
       \/ DocSummarize \/ DocRender \/ DocRenderPage \/ DocAnalyzePage
       \/ DocAnalyzeFinal \/ DocPdfText \/ DocPdfTextInfer \/ DocLastResortText
       \/ DocLastResortInfer \/ DocDisconnect

KeyImg ==
    /\ doc.pc = "idle" /\ conv.pc = "idle"
    /\ (ImgPost \/ ImgArrayBuffer \/ ImgVision)

KeyConv ==
    /\ doc.pc = "idle" /\ img.pc = "idle"
    /\ (ConvPost \/ ConvArrayBuffer \/ ConvWhisper \/ ConvSummary)

NextKey == KeyDoc \/ KeyImg \/ KeyConv \/ Forget

SpecKey == InitKey /\ [][NextKey]_vars

(***************************************************************************)
(* SpecDiar: performDiarization applied to every transcript of at most     *)
(* MaxTokens tokens over a vocabulary that has a question, a sentence end, *)
(* and a word of each of the four lists, and to the longer transcripts of  *)
(* TranscriptInputs.                                                       *)
(***************************************************************************)
MaxTokens == 3

Vocabulary == {"Is", "ready?", "What?!", "Yes", "not", "I", "You", "it.", "Fine."}

Transcripts == UNION { [1..n -> Vocabulary] : n \in 0..MaxTokens }

InitDiar ==
    /\ LimiterInit
    /\ client = ClientIdle
    /\ env = [apiKey |-> "sk-live", nodeEnv |-> "production"]
    /\ doc = DocIdle
    /\ img = ImgIdle
    /\ \E t \in Transcripts \cup TranscriptInputs :
         conv = [ConvIdle EXCEPT !.transcript = t]

\* lines 202-208 applied to the transcript at hand
Attribute ==
    /\ conv' = ConvSucceed(conv, "")
    /\ UNCHANGED <<now, requestLogs, last, solo, admitted, env, doc, img, client>>

NextDiar == Attribute

SpecDiar == InitDiar /\ [][NextDiar]_vars

(***************************************************************************)
(* SpecIds: limiters called the way a route calls them, without the        *)
(* identifier argument, by clients with and without proxy headers: the     *)
(* store holds a window for "ip1" and one for "anonymous".                 *)
(***************************************************************************)
HeaderLimiters == {"heavy", "image"}

InitIds ==
    /\ LimiterInit
    /\ client = ClientIdle
    /\ env = [apiKey |-> "sk-live", nodeEnv |-> "production"]
    /\ doc = DocIdle
    /\ img = ImgIdle
    /\ conv = ConvIdle

CallHeaders ==
    \E name \in HeaderLimiters, xff \in IdInputs, xri \in IdInputs :
        Call(name, Absent, xff, xri)

NextIds == Tick \/ CallHeaders \/ Sweep

SpecIds == InitIds /\ [][NextIds]_vars

(***************************************************************************)
(* SpecHistory: the page's history under a run of completed analyses.      *)
(***************************************************************************)
MaxAnalyses == 11

InitHistory ==
    /\ LimiterInit
    /\ client = ClientIdle
    /\ env = [apiKey |-> "sk-live", nodeEnv |-> "production"]
    /\ doc = DocIdle
    /\ img = ImgIdle
    /\ conv = ConvIdle

\* an analysis of the mounted component completes: onAnalysis(type, ...)
CompleteAnalysis ==
    /\ client.added < MaxAnalyses
    /\ \E skill \in Skills :
           client' = addToHistory(client, HistoryType(skill), client.added + 1)
    /\ UNCHANGED serverVars

NextHistory == CompleteAnalysis

SpecHistory == InitHistory /\ [][NextHistory]_vars

(***************************************************************************)
(* SpecClient: the page with its three components, the user switching      *)
(* between them and submitting, requests and timers in flight.             *)
(***************************************************************************)
InitClient ==
    /\ LimiterInit
    /\ client = ClientIdle
    /\ env = [apiKey |-> "sk-live", nodeEnv |-> "production"]
    /\ doc = DocIdle
    /\ img = ImgIdle
    /\ conv = ConvIdle

NextClient == SelectSkill \/ Submit \/ FetchSettles \/ JsonSettles \/ TimerFires

SpecClient == InitClient /\ [][NextClient]_vars

\* a promise returned by fetch or by response.json() settles, and the event
\* loop then runs the continuation of the handler that awaits it
SettlesFor(n) == FetchSettlesFor(n) \/ JsonSettlesFor(n)

FairClient == \A n \in 1..MaxSubmits : WF_vars(SettlesFor(n))

SpecClientLive == SpecClient /\ FairClient


(***************************************************************************)
(* Properties of the limiter module, checked under Spec.                   *)
(***************************************************************************)
\* the step is a call of limiter n for identifier id
IsCallOf(n, id) == last'.limiter = n /\ last'.id = id

\* id has a window that is still open at time t
OpenWindow(logs, id, t) == id \in DOMAIN logs /\ ~(logs[id].resetTime < t)

\* r = ceil(d / 1000), stated without the division
IsCeilSeconds(r, d) == r * 1000 >= d /\ (r - 1) * 1000 < d

\* C1: when limiter n is the only limiter that acted on an identifier's open
\* window and has admitted maxRequests requests in it, a further call of n in
\* that window is rejected with allowed=false, remaining=0 and
\* retryAfter = ceil((resetTime - now) / 1000).
C1_Step ==
    \A n \in LimiterNames, id \in Ids :
        ( /\ IsCallOf(n, id)
          /\ OpenWindow(requestLogs, id, now)
          /\ solo[id] = n
          /\ admitted[id] >= rateLimiters[n].maxRequests )
        => /\ last'.result.allowed = FALSE
           /\ last'.result.remaining = 0
           /\ last'.result.resetTime = requestLogs[id].resetTime
           /\ IsCeilSeconds(last'.result.retryAfter,
                            requestLogs[id].resetTime - now)
           /\ requestLogs' = requestLogs

C1_RejectsBeyondCeiling == [][C1_Step]_vars

\* the standard limiter, alone on the window, has admitted 30 and rejects the
\* 31st request with a retry hint rounded up from 59.999 s
C1_Witness ==
    /\ last.limiter = "standard"
    /\ last.result.allowed = FALSE
    /\ solo[last.id] = "standard"
    /\ admitted[last.id] = 30
    /\ last.result.resetTime - now = 59999
    /\ last.result.retryAfter = 60

\* C2: a call counted by one limiter for an identifier never changes the
\* result (allowed, remaining, resetTime) that a different limiter reports
\* for the same identifier at the same instant.
C2_Step ==
    \A n \in LimiterNames, m \in LimiterNames, id \in Ids :
        (IsCallOf(n, id) /\ m # n)
        => rateLimit(rateLimiters[m], id, now', requestLogs').result
             = rateLimit(rateLimiters[m], id, now, requestLogs).result

C2_LimitersIndependent == [][C2_Step]_vars

\* C3: the stored count of every window equals the number of requests
\* admitted in it (no lost update), and a limiter acting alone on a window
\* has admitted at most its maxRequests there (no admission past the
\* ceiling).
C3_AtomicAdmission ==
    \A id \in DOMAIN requestLogs :
        /\ requestLogs[id].count = admitted[id]
        /\ solo[id] \in LimiterNames
             => admitted[id] <= rateLimiters[solo[id]].maxRequests

\* the heavy limiter alone has filled its window and turned a request away
C3_Witness ==
    /\ last.limiter = "heavy"
    /\ last.result.allowed = FALSE
    /\ solo[last.id] = "heavy"
    /\ admitted[last.id] = 5
    /\ requestLogs[last.id].count = 5

\* C4: whenever a limiter looks up an identifier's open window, the count
\* stored there is at least 1 and at most that limiter's maxRequests, and a
\* window the call opens starts at count 1.
C4_Step ==
    \A n \in LimiterNames, id \in Ids :
        IsCallOf(n, id)
        => IF OpenWindow(requestLogs, id, now)
           THEN /\ requestLogs[id].count >= 1
                /\ requestLogs[id].count <= rateLimiters[n].maxRequests
           ELSE requestLogs'[id].count = 1

C4_CountWithinCeiling == [][C4_Step]_vars

\* C5: a call that finds a window whose resetTime has passed is admitted and
\* replaces it by a fresh one: count = 1, resetTime = now + interval,
\* remaining = maxRequests - 1.
C5_Step ==
    \A n \in LimiterNames, id \in Ids :
        ( /\ IsCallOf(n, id)
          /\ id \in DOMAIN requestLogs
          /\ requestLogs[id].resetTime < now )
        => /\ last'.result.allowed = TRUE
           /\ last'.result.remaining = rateLimiters[n].maxRequests - 1
           /\ last'.result.resetTime = now + rateLimiters[n].interval
           /\ requestLogs'[id].count = 1
           /\ requestLogs'[id].resetTime = now + rateLimiters[n].interval
           /\ admitted'[id] = 1

C5_FreshWindowAfterExpiry == [][C5_Step]_vars

\* the auth limiter replaces an expired window 1 ms after an auth interval
C5_Witness ==
    /\ last.limiter = "auth"
    /\ last.found = "expired"
    /\ last.result.allowed = TRUE
    /\ now = NowStart + 900001
    /\ requestLogs[last.id] = [count |-> 1, resetTime |-> now + 900000]

\* C6: an allowed result reports remaining = maxRequests - count, with the
\* count as stored after the call; remaining is never negative.
C6_Remaining ==
    last.limiter \in LimiterNames
    => /\ last.result.remaining >= 0
       /\ last.result.allowed
            => last.result.remaining
                 = rateLimiters[last.limiter].maxRequests
                     - requestLogs[last.id].count

\* an increment took the last slot of an open window
C6_Witness ==
    /\ last.limiter = "image"
    /\ last.found = "open"
    /\ last.result.allowed = TRUE
    /\ last.result.remaining = 0
    /\ requestLogs[last.id].count = 10

\* the state after the step is the one a rejecting call returned in
RejectedCall == last'.limiter \in LimiterNames /\ ~last'.result.allowed

\* the step is a run of the cleanup callback that removed something
SweepStep == last'.limiter = "sweep"

\* C24: the sweep removes exactly the windows whose resetTime has passed and
\* leaves every other window as it is; a call of any limiter for any
\* identifier at any later reading of the clock returns the same result,
\* and leaves the same window, with the sweep as without it.
C24_Step ==
    SweepStep
    => /\ DOMAIN requestLogs'
            = { k \in DOMAIN requestLogs : ~(requestLogs[k].resetTime < now) }
       /\ \A k \in DOMAIN requestLogs' : requestLogs'[k] = requestLogs[k]
       /\ \A t \in Times, id \in Ids, n \in LimiterNames :
            t >= now
            => LET with    == rateLimit(rateLimiters[n], id, t, requestLogs')
                   without == rateLimit(rateLimiters[n], id, t, requestLogs)
               IN /\ with.result = without.result
                  /\ with.logs[id] = without.logs[id]

C24_SweepUnobservable == [][C24_Step]_vars

\* the cleanup has just removed the expired window of u1
C24_Witness ==
    /\ last.limiter = "sweep"
    /\ last.removed = {"u1"}
    /\ "u1" \notin DOMAIN requestLogs
    /\ now > NowStart + 60000

\* C27: a rejected call leaves the store as it was: the identifier's count
\* and resetTime are unchanged and no entry of another identifier is
\* created, changed or removed.
C27_Step == RejectedCall => requestLogs' = requestLogs

C27_RejectionWritesNothing == [][C27_Step]_vars

\* ip1 has been turned away by heavy while anonymous has an open window
C27_Witness ==
    /\ last.limiter = "heavy"
    /\ last.id = "ip1"
    /\ ~last.result.allowed
    /\ requestLogs["ip1"].count = 5
    /\ "anonymous" \in DOMAIN requestLogs
    /\ requestLogs["anonymous"].count = 2

\* C28: a rejection carries a retryAfter of at least 0 and at most
\* ceil(interval / 1000) of the limiter that rejected (60 for heavy).
C28_RetryAfterBounded ==
    (last.limiter \in LimiterNames /\ ~last.result.allowed)
    => /\ last.result.retryAfter >= 0
       /\ last.result.retryAfter
            <= Ceil(rateLimiters[last.limiter].interval, MsPerSecond)

(***************************************************************************)
(* Properties of the document route, checked under SpecDoc.                *)
(***************************************************************************)
\* the document request in flight takes a step of its pipeline
DocPipelineStep == doc.pc \notin {"idle", "done"} /\ doc' # doc

\* C7: while a window is open its count never decreases and its resetTime
\* stays; the steps of an admitted document request (failing validation,
\* extraction, inference, the caller going away) leave the store alone, so
\* a request that ends in an error still holds the unit it was charged.
C7_Step ==
    /\ \A id \in DOMAIN requestLogs :
         OpenWindow(requestLogs, id, now')
         => /\ id \in DOMAIN requestLogs'
            /\ requestLogs'[id].resetTime = requestLogs[id].resetTime
            /\ requestLogs'[id].count >= requestLogs[id].count
    /\ DocPipelineStep => requestLogs' = requestLogs
    /\ ( /\ doc'.pc = "done"
         /\ doc'.admission = "allowed"
         /\ doc'.resp.status >= 400
         /\ OpenWindow(requestLogs', doc'.id, now')
         /\ requestLogs'[doc'.id].resetTime = doc'.rl.resetTime )
       => requestLogs'[doc'.id].count
            >= rateLimiters.heavy.maxRequests - doc'.rl.remaining

C7_ChargedNotRefunded == [][C7_Step]_vars

\* an admitted PDF request whose caller went away failed in the last-resort
\* inference call; the unit it was charged is still counted
C7_Witness ==
    /\ doc.pc = "done"
    /\ doc.admission = "allowed"
    /\ doc.resp.status = 400
    /\ "inference" \in doc.work
    /\ ~doc.connected
    /\ doc.rl.remaining = 2
    /\ doc.id \in DOMAIN requestLogs
    /\ requestLogs[doc.id].count = 3
    /\ requestLogs[doc.id].resetTime = doc.rl.resetTime

\* C8: a document request the heavy limiter rejected has done no form
\* parsing, no extraction and no inference call and has ended with status
\* 429; any work a request has done was preceded by its admission.
C8_AdmissionFirst ==
    /\ doc.admission = "rejected"
         => /\ doc.pc = "done"
            /\ doc.work = {}
            /\ doc.inferences = 0
            /\ doc.resp.status = 429
    /\ (doc.work # {} \/ doc.inferences > 0) => doc.admission = "allowed"
    /\ doc.pc # "idle" => doc.admission # "none"

\* the sixth request inside a window has been turned away
C8_Witness ==
    /\ doc.admission = "rejected"
    /\ doc.pc = "done"
    /\ doc.resp.status = 429
    /\ requestLogs[doc.id].count = 5
    /\ admitted[doc.id] = 5

\* C10: the 429 response to a rejected admission carries Retry-After (the
\* limiter's retryAfter, i.e. the seconds to the window's reset, rounded up),
\* X-RateLimit-Limit 5, X-RateLimit-Remaining (the reported remaining, 0)
\* and X-RateLimit-Reset (the window's resetTime as an ISO timestamp).
C10_RateLimitHeaders ==
    (doc.pc = "done" /\ doc.admission = "rejected")
    => /\ doc.resp.status = 429
       /\ doc.id \in DOMAIN requestLogs
       /\ Header(doc.resp, "Retry-After") = ToString(doc.rl.retryAfter)
       /\ IsCeilSeconds(doc.rl.retryAfter, requestLogs[doc.id].resetTime - now)
       /\ Header(doc.resp, "X-RateLimit-Limit")
            = ToString(rateLimiters.heavy.maxRequests)
       /\ Header(doc.resp, "X-RateLimit-Remaining") = ToString(doc.rl.remaining)
       /\ doc.rl.remaining = 0
       /\ Header(doc.resp, "X-RateLimit-Reset")
            = ToISOString(requestLogs[doc.id].resetTime)
       /\ Len(Header(doc.resp, "X-RateLimit-Reset")) = 24
       /\ Cardinality(doc.resp.headers) = 4

\* a request rejected 59.999 s before the reset at midnight
C10_Witness ==
    /\ doc.pc = "done"
    /\ doc.admission = "rejected"
    /\ now = NowStart + 1
    /\ Header(doc.resp, "Retry-After") = "60"
    /\ Header(doc.resp, "X-RateLimit-Limit") = "5"
    /\ Header(doc.resp, "X-RateLimit-Remaining") = "0"
    /\ Header(doc.resp, "X-RateLimit-Reset") = "1970-01-02T00:00:00.000Z"

\* the step ends the document request without a further inference call
DocEndsWithoutInference ==
    /\ doc'.pc = "done"
    /\ doc'.inferences = doc.inferences

\* C11: a PDF request whose rendering gave no image (an empty list, or an
\* error before any inference call) and whose text extraction gave nothing
\* above the 50 character threshold ends with an error response and never
\* with a success response that carries a summary.
C11_Step ==
    ( /\ \/ doc.pc = "pdfText" /\ Len(doc.images) = 0
         \/ doc.pc = "lastResortText" /\ "inference" \notin doc.work
      /\ DocEndsWithoutInference )
    => /\ doc'.resp.status >= 400
       /\ "summary" \notin DOMAIN doc'.resp.body

C11_ShortPdfFails == [][C11_Step]_vars

\* C12: on every path of the document route a request with an inference
\* call rejected upstream with 401 ends with status 401 or 500, and a
\* request with an inference call throttled upstream (429) ends with status
\* 429 and the fixed hint retryAfter = 60.
C12_UpstreamSurfaced ==
    /\ (doc.pc = "done" /\ doc.authFailed /\ ~doc.throttled)
         => doc.resp.status \in {401, 500}
    /\ (doc.pc = "done" /\ doc.throttled /\ ~doc.authFailed)
         => /\ doc.resp.status = 429
            /\ "details" \in DOMAIN doc.resp.body
            /\ doc.resp.body.details = [retryAfter |-> 60]

\* C13: once an inference call of a request has failed with upstream status
\* 401, the request issues no further inference call, on every route.
C13_Step ==
    /\ (doc.authFailed /\ doc.pc \notin {"idle", "done"})
         => doc'.inferences = doc.inferences
    /\ (conv.authFailed /\ conv.pc \notin {"idle", "done"})
         => conv'.inferences = conv.inferences
    /\ (img.authFailed /\ img.pc \notin {"idle", "done"})
         => img'.inferences = img.inferences

C13_AuthFailureNotRetried == [][C13_Step]_vars

\* an error response has the stable shape: error and timestamp, and a stack
\* only in development
ErrorShape(r) ==
    r.status >= 400
    => /\ {"error", "timestamp"} \subseteq DOMAIN r.body
       /\ ("details" \in DOMAIN r.body /\ "stack" \in DOMAIN r.body.details)
            => env.nodeEnv = "development"

\* C17: every error response of the three routes (400, 429, 401, 503, 500)
\* has a body with an error field and a timestamp field, and has a stack
\* trace only in development mode.
C17_StableErrorShape ==
    /\ doc.pc = "done" => ErrorShape(doc.resp)
    /\ img.pc = "done" => ErrorShape(img.resp)
    /\ conv.pc = "done" => ErrorShape(conv.resp)

\* the scheme of the url is one the route fetches
FetchableUrl(url) == UrlProtocol(url) \in {"http:", "https:"}

\* C18: a type=url request whose url does not parse or has a scheme other
\* than http and https ends with status 400 and the remote-page extractor
\* has issued no network request for it.
C18_SchemeCheckedBeforeFetch ==
    /\ (doc.pc # "idle" /\ doc.url # Absent /\ ~FetchableUrl(doc.url))
         => /\ doc.pc = "done"
            /\ doc.resp.status = 400
            /\ "fetch" \notin doc.work
    /\ (doc.pc = "fetchUrl" \/ "fetch" \in doc.work) => FetchableUrl(doc.url)

\* an ftp url has been turned away after the form was read, without a fetch
C18_Witness ==
    /\ doc.pc = "done"
    /\ doc.url = "ftp://site.test/a"
    /\ doc.work = {"form"}
    /\ doc.resp.status = 400
    /\ doc.resp.body.error
         = "Invalid URL protocol. Only HTTP and HTTPS are supported."

\* the document request is between the page count and the end of the
\* rendering, or working on what the rendering returned
Rendering == doc.pc \in {"renderPage", "analyzePage", "analyzeFinal", "pdfText"}

\* the step settles the render of page doc.page
RenderPageStep ==
    /\ doc.pc = "renderPage"
    /\ doc'.pc # "renderPage" \/ doc'.page # doc.page

\* C22 (state part): for a PDF of P >= 1 pages the images are pages of
\* 1..min(P,5) in increasing order, at most 5, and pageCount is P.
C22_Images ==
    (Rendering /\ doc.numpages >= 1)
    => /\ doc.pageCount = doc.numpages
       /\ Len(doc.images) <= 5
       /\ \A i \in 1..Len(doc.images) :
            /\ doc.images[i] \in 1..Min(doc.numpages, 5)
            /\ i > 1 => doc.images[i - 1] < doc.images[i]

\* C22 (step part): a page whose render fails is left out and the loop goes
\* on: the render of a page never ends the batch with an error, it adds the
\* page or nothing, and the batch ends only after page min(P,5).
C22_Step ==
    RenderPageStep
    => /\ ~doc'.pdfError
       /\ doc'.images \in {doc.images, Append(doc.images, doc.page)}
       /\ doc'.pageCount = doc.pageCount
       /\ IF doc'.pc = "renderPage"
          THEN doc'.page = doc.page + 1
          ELSE /\ doc'.pc \in {"analyzePage", "pdfText"}
               /\ doc.page = Min(doc.pageCount, 5)

\* C22: PDF image rendering returns an order-preserving subsequence of the
\* pages 1..min(P,5), omits a page whose render fails without failing the
\* batch, and reports the total page count P.
C22_RenderCapped == [](C22_Images) /\ [][C22_Step]_vars

\* a 12-page PDF was rendered; pages 2 and 4 failed, pages 6 to 12 were not
\* tried
C22_Witness ==
    /\ doc.pc = "analyzePage"
    /\ doc.numpages = 12
    /\ doc.pageCount = 12
    /\ doc.images = <<1, 3, 5>>

(***************************************************************************)
(* Properties of the image and conversation routes, checked under          *)
(* SpecMedia.                                                              *)
(***************************************************************************)
\* C9: the image route and the conversation route consult the Admission
\* Controller before processing: a request that got past the arrival has an
\* admission result, and a gateway call is made only for an admitted one.
C9_RoutesGated ==
    /\ img.pc # "idle" => img.admission \in {"allowed", "rejected"}
    /\ img.inferences > 0 => img.admission = "allowed"
    /\ conv.pc # "idle" => conv.admission \in {"allowed", "rejected"}
    /\ conv.inferences > 0 => conv.admission = "allowed"

\* the conversation response carries the three fields of a result
IsConversationResult(r) ==
    /\ r.status = 200
    /\ {"transcript", "diarization", "summary"} \subseteq DOMAIN r.body

\* C14: a conversation request that got to the speech-to-text call is
\* answered with a success, whatever way that call or the summary call
\* failed: the transcript is the gateway's or the canned one, the segments
\* are those of the Speaker Attribution Engine for exactly that transcript,
\* and the summary is the gateway's or the canned one.
C14_ConversationNonFatal ==
    (conv.pc = "done" /\ conv.stt # "none")
    => /\ IsConversationResult(conv.resp)
       /\ conv.resp.body.transcript
            = (IF conv.stt = "ok" THEN conv.transcript ELSE CannedTranscript)
       /\ conv.resp.body.diarization
            = performDiarization(conv.resp.body.transcript)
       /\ (conv.sum # "none" /\ InferFailed(conv.sum))
            => conv.resp.body.summary = CannedSummary

\* C15: on the image route an upstream 401 is answered with an error status
\* and no description, a model-unavailable failure with status 200 and the
\* description built from the file's metadata; the statuses differ.
C15_AuthFatalModelTemplated ==
    /\ (img.pc = "done" /\ img.vision = "401")
         => /\ img.resp.status >= 400
            /\ "error" \in DOMAIN img.resp.body
            /\ "description" \notin DOMAIN img.resp.body
    /\ (img.pc = "done" /\ img.vision = "model_not_found")
         => /\ img.resp.status = 200
            /\ img.resp.body = [description |-> ModelNotFoundTemplate]

\* the vision model was not available and the template was returned
C15_Witness ==
    /\ img.pc = "done"
    /\ img.vision = "model_not_found"
    /\ img.inferences = 1
    /\ img.resp.status = 200
    /\ img.resp.body.description = ModelNotFoundTemplate

\* C16: every failure of the vision call other than a 401 (throttling,
\* unavailability, any other error) is answered with status 200 and the
\* same description as the model-unavailable case.
C16_OtherFailuresTemplated ==
    (img.pc = "done" /\ img.vision \in {"429", "503", "error", "model_not_found"})
    => /\ img.resp.status = 200
       /\ img.resp.body = [description |-> ModelNotFoundTemplate]

(***************************************************************************)
(* Properties of the three routes under a missing key, checked under       *)
(* SpecKey.                                                                *)
(***************************************************************************)
\* C19: with the gateway key absent or a placeholder no route issues an
\* inference call, and the image and the conversation route answer every
\* valid request (one that passed validation and whose bytes were read)
\* with a success that carries the canned demo content.
C19_DemoWithoutKey ==
    env.apiKey \in {Absent, "", "your-openai-api-key-here", "dummy-key"}
    => /\ doc.inferences = 0 /\ "inference" \notin doc.work
       /\ img.inferences = 0 /\ "inference" \notin img.work
       /\ conv.inferences = 0 /\ "inference" \notin conv.work
       /\ (img.pc = "done" /\ "buffer" \in img.work)
            => /\ img.resp.status = 200
               /\ img.resp.body = [description |-> DemoDescription]
       /\ (conv.pc = "done" /\ "buffer" \in conv.work)
            => /\ IsConversationResult(conv.resp)
               /\ conv.resp.body.transcript = CannedTranscript
               /\ conv.resp.body.diarization = performDiarization(CannedTranscript)
               /\ conv.resp.body.summary = DemoSummary

\* a conversation request was answered with the demo content under the
\* placeholder key
C19_Witness ==
    /\ env.apiKey = "your-openai-api-key-here"
    /\ conv.pc = "done"
    /\ "buffer" \in conv.work
    /\ conv.inferences = 0
    /\ conv.resp.status = 200
    /\ conv.resp.body.transcript = CannedTranscript
    /\ conv.resp.body.summary = DemoSummary

Segments == conv.resp.body.diarization

Attributed == conv.pc = "done" /\ conv.resp.status = 200

\* the ordered chain of rules (a) to (f) for the sentence that follows the
\* segments d: what triggers a rule, and whether it flips the label
RuleChain(d, sentence) ==
    LET prev   == d[Len(d)]
        first  == HasWord(sentence, FirstPersonWords)
        second == HasWord(sentence, SecondPersonWords)
    IN << [when |-> IncludesQuestionMark(prev.text), flip |-> TRUE],
          [when |-> HasWord(sentence, AgreementWords \cup DisagreementWords),
           flip |-> TRUE],
          [when |-> first /\ ~second, flip |-> FALSE],
          [when |-> second /\ ~first, flip |-> TRUE],
          [when |-> /\ Len(d) >= 2
                    /\ d[Len(d) - 1].speaker = prev.speaker,
           flip |-> TRUE],
          [when |-> TRUE, flip |-> FALSE] >>

\* the decision of the first rule of a chain that matches
FirstMatch(chain) ==
    chain[CHOOSE i \in 1..Len(chain) :
            chain[i].when /\ \A j \in 1..(i - 1) : ~chain[j].when]

\* the label a decision gives the segment after one labelled label
Decided(label, rule) ==
    IF ~rule.flip THEN label
    ELSE IF label = "Speaker 1" THEN "Speaker 2" ELSE "Speaker 1"

QuestionEndTokens == {"are?", "ready?", "take?"}

\* the segment ends in a question mark
EndsInQuestionMark(sentence) ==
    Len(sentence) > 0 /\ sentence[Len(sentence)] \in QuestionEndTokens

\* C25: rule (a) fires exactly when the previous segment ends in a question
\* mark; after a segment that has a '?' only before its end (as 'What?!')
\* the label is what the rules (b) to (f) decide.
C25_QuestionAtEndOnly ==
    Attributed
    => \A k \in 2..Len(Segments) :
         LET chain == RuleChain(SubSeq(Segments, 1, k - 1), Segments[k].text)
         IN Segments[k].speaker
              = Decided(Segments[k - 1].speaker,
                        IF EndsInQuestionMark(Segments[k - 1].text)
                        THEN chain[1]
                        ELSE FirstMatch(Tail(chain)))

\* no token of the transcript has a question mark or is a marker word
Unmarked(transcript) ==
    \A i \in 1..Len(transcript) :
        /\ transcript[i] \notin QuestionTokens
        /\ ToLowerCase(transcript[i])
             \notin FirstPersonWords \cup SecondPersonWords
                    \cup AgreementWords \cup DisagreementWords

\* C26: in a transcript without question marks and marker words the labels
\* come in runs of exactly two, starting with 'Speaker 1'; no label is given
\* to three consecutive segments.
C26_RunsOfTwo ==
    (Attributed /\ Unmarked(conv.transcript))
    => /\ \A k \in 1..Len(Segments) :
            Segments[k].speaker
              = (IF ((k - 1) \div 2) % 2 = 0 THEN "Speaker 1" ELSE "Speaker 2")
       /\ \A k \in 3..Len(Segments) :
            ~ ( /\ Segments[k].speaker = Segments[k - 1].speaker
                /\ Segments[k].speaker = Segments[k - 2].speaker )

\* seven plain sentences have been attributed
C26_Witness ==
    /\ Attributed
    /\ conv.transcript
         = <<"One.", "Two.", "Three.", "Four.", "Five.", "Six.", "Seven.">>
    /\ [k \in 1..Len(Segments) |-> Segments[k].speaker]
         = <<"Speaker 1", "Speaker 1", "Speaker 2", "Speaker 2",
             "Speaker 1", "Speaker 1", "Speaker 2">>

C29_ProgressBelongs ==
    client.selectedSkill = "document" =>
        /\ ~client.loading => client.progress = ""
        /\ client.loading =>
               \E r \in client.requests : r.live /\ r.n = client.progressOf

(***************************************************************************)
(* C30: every submission's handler reaches its finally block, whatever     *)
(* the outcome of the fetch; loading is true exactly while the mounted     *)
(* component has a handler in flight, so it is false again once that       *)
(* handler has finished; and every history entry comes from a submission   *)
(* whose response was OK.                                                  *)
(***************************************************************************)
Pending(n) == \E r \in client.requests : r.n = n

LoadingTracksRequest ==
    client.loading <=> \E r \in client.requests : r.live

HistoryOnlyOk ==
    \A i \in 1..Len(client.history) : client.history[i].input \in client.okays

C30_EverySubmissionSettles ==
    /\ [](LoadingTracksRequest /\ HistoryOnlyOk)
    /\ \A n \in 1..MaxSubmits : Pending(n) ~> (n \in client.finished)

C30_Witness ==
    /\ client.finished = {1, 2}
    /\ client.okays = {2}
    /\ Len(client.history) = 1
    /\ ~client.loading

====
